---- MODULE Spec2Model ----
(***************************************************************************)
(* GitShrewd: the git status view of src/src/GitViewController.ts (the     *)
(* class at lines 276-489) and its content provider,                       *)
(* src/src/GitViewContentProvider.ts.                                      *)
(*                                                                         *)
(* The extension host is single-threaded: every handler below runs to      *)
(* completion, and suspends only where the source awaits the host, the     *)
(* filesystem or git.  Each such completion is one action.                 *)
(***************************************************************************)
EXTENDS Integers, Sequences, FiniteSets, TLC

\* ------------------------------------------------------------------ bounds
NumPanes == 2        \* editor panes the host can focus: 1..NumPanes
MaxOpens == 2        \* openGitStatus invocations in flight at once
MaxSubs == 5         \* length of GitViewController.subscriptions
MaxListeners == 3    \* onDidChange subscriptions over a run
MaxTasks == 1        \* stageCurrent / unstageCurrent actions over a run
MaxCommits == 2      \* commitStaged actions over a run
MaxPending == 1      \* commitStaged actions that have not ended, at a time
MaxSaves == 2        \* git.commit calls one save observer makes over a run
MaxLines == 3        \* lines of the commit message document
MaxLineLen == 2      \* characters of one line of that document
MaxFiles == 2        \* files one git status response lists
MaxOutputLen == 3    \* characters of the git status output of commitStaged

Panes == 1..NumPanes
NoEditor == 0        \* `undefined`: no active text editor / this.view unset
NoDisposable == 0    \* `undefined` or `null` keypressDisposable

VARIABLES
    activeEditor,        \* window.activeTextEditor (NoEditor or a pane)
    view,                \* GitViewController.view
    keypressDisposable,  \* GitViewController.keypressDisposable: an index of
                         \* subscriptions, or NoDisposable
    subscriptions,       \* GitViewController.subscriptions: every Disposable
                         \* handed to eventuallyDispose, with the number of
                         \* times its dispose() was called
    disposed,            \* GitViewController.dispose() has run
    opens,               \* openGitStatus invocations: where each one is
    rootPath,            \* workspace.rootPath is set (a folder is open)
    providerRegistration, \* the Disposable that
                         \* registerTextDocumentContentProvider returned
    changeListeners,     \* GitViewContentProvider.changeListeners: the n-th
                         \* subscribed listener is n, a nulled slot is Null
    handles,             \* the idx each onDidChange call captured (0-based)
    lastHandle,          \* the handle whose dispose() ran last (0: none, or
                         \* a subscription came after it)
    lastRound,           \* the notifyListeners round that ran last, while
                         \* the listener list is as that round found it
    tasks,               \* stageCurrent / unstageCurrent actions
    commits,             \* commitStaged actions and their save observers
    document,            \* the commit message TextDocument: its lines and
                         \* its end-of-line sequence
    msg,                 \* the message the save observer passed to
                         \* git.commit when the document, as it is now,
                         \* was saved; NoMsg if it was not
    cursorLine,          \* the text of the status view's line at the cursor
    lastKey,             \* the character of the keyPress call that was the
                         \* last step, NoKey if the last step was none
    content              \* the last provideTextDocumentContent call: its
                         \* URI path, the promise it returned, the git
                         \* status queries it made and what they answered

focusVars == <<activeEditor, view, keypressDisposable, subscriptions, disposed, opens>>
providerVars == <<changeListeners, handles, lastHandle>>
actionVars == <<tasks, commits>>
envVars == <<rootPath, providerRegistration, document, msg, content, cursorLine>>
vars == <<focusVars, envVars, providerVars, lastRound, actionVars, lastKey>>

\* ------------------------------------------------------- GitViewController

\* A Disposable as the host returns it: what it registers and how often its
\* dispose() was called.  It is live until the first call.
NewDisposable(kind) == [kind |-> kind, disposed |-> 0]

Live(subs, kind) == {i \in 1..Len(subs) : subs[i].kind = kind /\ subs[i].disposed = 0}

\* The 'type' command registrations the host currently holds.
LiveTypeRegs == Live(subscriptions, "type")
LiveWatchers == Live(subscriptions, "watcher")

\* eventuallyDispose(d): push d; this.disposable is rebuilt from the whole
\* array, so dispose() always covers every element.
eventuallyDispose(subs, d) == Append(subs, d)

\* registerCommand(command, handler): the registration is pushed too.
registerCommand(subs, command) == eventuallyDispose(subs, NewDisposable(command))

\* d.dispose() on the element at index i.
CallDispose(subs, i) == [subs EXCEPT ![i].disposed = @ + 1]

\* The onDidChangeActiveTextEditor listener of openGitStatus, run on the
\* controller's fields c = [kd, subs] for the event's editor e.
FocusHandler(e, v, c) ==
    IF e # v /\ c.kd # NoDisposable
    THEN [kd |-> NoDisposable, subs |-> CallDispose(c.subs, c.kd)]
    ELSE IF e = v /\ c.kd = NoDisposable
    THEN [kd |-> Len(c.subs) + 1, subs |-> registerCommand(c.subs, "type")]
    ELSE c

\* The host fires the event at each live listener in turn: every completed
\* openTextDocument of openGitStatus has installed one.
RECURSIVE FireFocusEvent(_, _, _, _)
FireFocusEvent(n, e, v, c) ==
    IF n = 0 THEN c ELSE FireFocusEvent(n - 1, e, v, FocusHandler(e, v, c))

\* The callback without its `this.keypressDisposable ||`.
ShowCallbackAlwaysRegisters(editor, c) ==
    [view |-> editor, kd |-> Len(c.subs) + 1, subs |-> registerCommand(c.subs, "type")]

\* The showTextDocument callback of openGitStatus: this.view = editor;
\* this.keypressDisposable = this.keypressDisposable || registerCommand(...).
ShowCallback(editor, c) ==
    IF c.kd # NoDisposable
    THEN [view |-> editor, kd |-> c.kd, subs |-> c.subs]
    ELSE [view |-> editor, kd |-> Len(c.subs) + 1, subs |-> registerCommand(c.subs, "type")]

Ctl == [kd |-> keypressDisposable, subs |-> subscriptions]

IdleOpen == [pc |-> "idle", pane |-> NoEditor]

\* ------------------------------------------------ GitViewContentProvider

Null == 0            \* a nulled slot of changeListeners

\* onDidChange(listener): push, and capture idx = push(...) - 1 in the handle.
onDidChange(cl, listener) ==
    LET pushed == Append(cl, listener)
    IN [cl |-> pushed, idx |-> Len(pushed) - 1]

\* A dispose() that removes the slot, this.changeListeners.splice(idx, 1).
HandleDisposeSplices(cl, idx) ==
    [j \in 1..(Len(cl) - 1) |-> IF j <= idx THEN cl[j] ELSE cl[j + 1]]

\* The handle's dispose(): this.changeListeners[idx] = null.  An index at or
\* past the end would extend the array, as a JavaScript assignment does.
HandleDispose(cl, idx) ==
    IF idx + 1 <= Len(cl) THEN [cl EXCEPT ![idx + 1] = Null]
    ELSE cl \o [j \in 1..(idx + 1 - Len(cl)) |-> Null]

\* notifyListeners(uri): for (let l of this.changeListeners) l(...).  Calling
\* a nulled slot throws a TypeError, which ends the loop.
RECURSIVE NotifyFrom(_, _)
NotifyFrom(cl, i) ==
    IF i > Len(cl) THEN [invoked |-> <<>>, threw |-> FALSE]
    ELSE IF cl[i] = Null THEN [invoked |-> <<>>, threw |-> TRUE]
    ELSE LET rest == NotifyFrom(cl, i + 1)
         IN [invoked |-> <<cl[i]>> \o rest.invoked, threw |-> rest.threw]

notifyListeners(cl) == NotifyFrom(cl, 1)

\* A refreshStatus that queries git status itself before it notifies.
refreshStatusQueriesGit(cl) ==
    LET r == notifyListeners(cl)
    IN [ran |-> TRUE, invoked |-> r.invoked, threw |-> r.threw, gitCalls |-> 1]

\* refreshStatus(): one notifyListeners round on the status URI, and no call
\* of git or of provideTextDocumentContent.
refreshStatus(cl) ==
    LET r == notifyListeners(cl)
    IN [ran |-> TRUE, invoked |-> r.invoked, threw |-> r.threw, gitCalls |-> 0]

NoRound == [ran |-> FALSE, invoked |-> <<>>, threw |-> FALSE, gitCalls |-> 0]

\* ---------------------------------------------------- the view's content
\* A text is the sequence of the pieces the code concatenates; "\n" is a
\* piece of its own.

UriPaths == {"status", "/status", "log"}
Paths == {"a.txt", "b.txt", "c.txt"}

\* The markers of git status --porcelain that a file's index and working_dir
\* hold: modified, unchanged, added.
Markers == {"M", " ", "A"}

FileEntries == [path : Paths, index : Markers, working_dir : Markers]

\* stat.files: the files in git's listing order, each path once.
FileLists ==
    {f \in UNION {[1..n -> FileEntries] : n \in 0..MaxFiles} :
        \A i, j \in 1..Len(f) : f[i].path = f[j].path => i = j}

\* What git.status answers: (err) or (null, stat).
StatusResults ==
    {[ok |-> FALSE, files |-> <<>>]} \cup {[ok |-> TRUE, files |-> f] : f \in FileLists}

NoResult == [ok |-> FALSE, files |-> <<"none">>]

\* provideShortcutHelp(): one fixed text.
provideShortcutHelp ==
    [state |-> "resolved",
     text |-> <<"COMMANDS:", "\n", "[s]tage current", "\n", "[u]nstage current", "\n",
                "[c]ommit staged", "\n", "[r]efresh view">>]

\* The loop over stat.files: if (file.index === 'M') staged.push(file.path)
RECURSIVE staged(_)
staged(files) ==
    IF Len(files) = 0 THEN <<>>
    ELSE (IF files[1].index = "M" THEN <<files[1].path>> ELSE <<>>) \o staged(Tail(files))

\* An unstaged list that leaves out the files the staged list has.
RECURSIVE unstagedUnlessStaged(_)
unstagedUnlessStaged(files) ==
    IF Len(files) = 0 THEN <<>>
    ELSE (IF files[1].index # "M" /\ files[1].working_dir = "M"
          THEN <<files[1].path>> ELSE <<>>) \o unstagedUnlessStaged(Tail(files))

\* if (file.working_dir === 'M') unstaged.push(file.path)
RECURSIVE unstaged(_)
unstaged(files) ==
    IF Len(files) = 0 THEN <<>>
    ELSE (IF files[1].working_dir = "M" THEN <<files[1].path>> ELSE <<>>)
         \o unstaged(Tail(files))

\* list.reduce((out, fn) => `${out}\n  ${fn}`, '')
RECURSIVE IndentedLines(_)
IndentedLines(list) ==
    IF Len(list) = 0 THEN <<>>
    ELSE <<"\n", "  ", list[1]>> \o IndentedLines(Tail(list))

\* A block that prints its label also when its list is empty.
BlockWithLabelAlways(label, list) ==
    <<label>> \o IndentedLines(list) \o <<"\n", "\n">>

\* if (list.length) output += `LABEL:${...}\n\n`
Block(label, list) ==
    IF Len(list) = 0 THEN <<>>
    ELSE <<label>> \o IndentedLines(list) \o <<"\n", "\n">>

\* A provideStatusContent without its .catch.
provideStatusContentNoCatch(result) ==
    IF result.ok
    THEN [state |-> "resolved",
          text |-> Block("STAGED:", staged(result.files))
                   \o Block("UNSTAGED:", unstaged(result.files))]
    ELSE [state |-> "rejected", text |-> <<"err">>]

\* provideStatusContent(), once git.status has answered: the two blocks, or
\* the .catch's string for a query that failed.
provideStatusContent(result) ==
    IF result.ok
    THEN [state |-> "resolved",
          text |-> Block("STAGED:", staged(result.files))
                   \o Block("UNSTAGED:", unstaged(result.files))]
    ELSE [state |-> "resolved", text |-> <<"error getting git status: ", "err">>]

\* content.reduce((memo, val) => memo += `${val}\n`, '')
RECURSIVE ConcatLines(_)
ConcatLines(parts) ==
    IF Len(parts) = 0 THEN <<>>
    ELSE parts[1].text \o <<"\n">> \o ConcatLines(Tail(parts))

\* Promise.all(parts).then(reduce): rejected with the first part that is.
AllThenConcat(parts) ==
    LET bad == {i \in 1..Len(parts) : parts[i].state = "rejected"}
    IN IF bad = {} THEN [state |-> "resolved", text |-> ConcatLines(parts)]
       ELSE parts[CHOOSE i \in bad : \A j \in bad : i <= j]

NoContent == [uri |-> "none", state |-> "none", text |-> <<>>, gitCalls |-> 0, result |-> NoResult]

\* A provider that looks at workspace.rootPath before it looks at the path.
provideTextDocumentContentRootFirst(path, root) ==
    IF ~root
    THEN [uri |-> path, state |-> "resolved", text |-> <<"No folder open">>,
          gitCalls |-> 0, result |-> NoResult]
    ELSE IF path = "status"
    THEN [uri |-> path, state |-> "pending", text |-> <<>>, gitCalls |-> 1, result |-> NoResult]
    ELSE [uri |-> path, state |-> "rejected", text |-> <<"unrecognized URI ", path>>,
          gitCalls |-> 0, result |-> NoResult]

\* A provider that queries git whether or not a folder is open.
provideTextDocumentContentNoRootCheck(path, root) ==
    IF path = "status"
    THEN [uri |-> path, state |-> "pending", text |-> <<>>, gitCalls |-> 1, result |-> NoResult]
    ELSE [uri |-> path, state |-> "rejected", text |-> <<"unrecognized URI ", path>>,
          gitCalls |-> 0, result |-> NoResult]

\* provideTextDocumentContent(uri, token) up to its return: the promise it
\* returns is settled, or pending on the git status query it started.
provideTextDocumentContent(path, root) ==
    IF path = "status"
    THEN IF root
         THEN [uri |-> path, state |-> "pending", text |-> <<>>, gitCalls |-> 1,
               result |-> NoResult]
         ELSE [uri |-> path, state |-> "resolved", text |-> <<"No folder open">>,
               gitCalls |-> 0, result |-> NoResult]
    ELSE [uri |-> path, state |-> "rejected", text |-> <<"unrecognized URI ", path>>,
          gitCalls |-> 0, result |-> NoResult]

\* ------------------------------------------------ stage, unstage, commit

Keys == {"r", "s", "u", "c", "x"}
NoKey == "none"

\* A keyPress that runs unstageCurrent for 's' and stageCurrent for 'u'.
keyPressSwapsStageAndUnstage(ch) ==
    CASE ch = "r" -> "refreshStatus"
      [] ch = "s" -> "unstageCurrent"
      [] ch = "u" -> "stageCurrent"
      [] ch = "c" -> "commitStaged"
      [] OTHER -> "none"

\* A keyPress whose last branch is an else: any other character refreshes.
keyPressRefreshesOnOther(ch) ==
    CASE ch = "s" -> "stageCurrent"
      [] ch = "u" -> "unstageCurrent"
      [] ch = "c" -> "commitStaged"
      [] OTHER -> "refreshStatus"

\* keyPress(what): the method the if / else if chain on what.text calls.
keyPress(ch) ==
    CASE ch = "r" -> "refreshStatus"
      [] ch = "s" -> "stageCurrent"
      [] ch = "u" -> "unstageCurrent"
      [] ch = "c" -> "commitStaged"
      [] OTHER -> "none"

\* The lines the status view shows, as the pieces the provider concatenates.
ViewLines == {<<"  ", "a.txt">>, <<"  ", "b.txt">>, <<"STAGED:">>, <<>>}

Whitespace == {"  ", "\n"}

\* String.prototype.trim(): without the whitespace at either end.
RECURSIVE trim(_)
trim(t) ==
    IF Len(t) = 0 THEN t
    ELSE IF t[1] \in Whitespace THEN trim(Tail(t))
    ELSE IF t[Len(t)] \in Whitespace THEN trim(SubSeq(t, 1, Len(t) - 1))
    ELSE t

\* getFocusedFile(): the trimmed text of the view's line at the cursor.
getFocusedFile == trim(cursorLine)

NoFile == <<"none">>

\* Open-Focused: the tracked pane is the host's active editor.
Focused == view # NoEditor /\ activeEditor = view

\* getFocusedFile() reads this.view.document: a TypeError while this.view is
\* unset.
getFocusedFileThrows == view = NoEditor

\* toAbsoluteWorkspacePath(p): path.join(workspace.rootPath, p) throws a
\* TypeError while rootPath is undefined.
toAbsoluteWorkspacePathThrows == ~rootPath

\* stageCurrent() / unstageCurrent() up to the first await: both read the
\* focused file and start isWorkspaceFile, synchronously.
NewTask(kind) ==
    LET filename == IF getFocusedFileThrows THEN NoFile ELSE getFocusedFile
    IN IF getFocusedFileThrows \/ toAbsoluteWorkspacePathThrows
       THEN [kind |-> kind, pc |-> "done", nMutate |-> 0, nRefresh |-> 0,
             outcome |-> "threw", filename |-> filename, operand |-> NoFile]
       ELSE [kind |-> kind, pc |-> "probe", nMutate |-> 0, nRefresh |-> 0,
             outcome |-> "pending", filename |-> filename, operand |-> NoFile]

\* A continuation that reads the cursor line again when the probe is done.
AfterProbeReadsCursorAgain(t, isfile) ==
    [t EXCEPT !.pc = "mutate", !.nMutate = @ + 1,
              !.operand = IF t.kind = "stage" THEN getFocusedFile
                          ELSE <<"rootPath/">> \o getFocusedFile]

\* .then(isfile => add / reset): isfile is not read.  add is passed
\* [filename], reset [toAbsoluteWorkspacePath(filename)], with the filename
\* constant the action read before the probe.
AfterProbe(t, isfile) ==
    [t EXCEPT !.pc = "mutate", !.nMutate = @ + 1,
              !.operand = IF t.kind = "stage" THEN t.filename
                          ELSE <<"rootPath/">> \o t.filename]

\* .then(() => refreshStatus()).catch(err => { log; return refreshStatus() })
\* for a mutation that resolved (ok) or rejected.
AfterMutate(t, ok, cl) ==
    LET r == refreshStatus(cl)
        calls == IF ok /\ r.threw THEN 2 ELSE 1
    IN [t EXCEPT !.pc = "done",
                 !.nRefresh = @ + calls,
                 !.outcome = IF r.threw THEN "rejected" ELSE "resolved"]

\* commitStaged(): the co generator up to its first yield, where both
\* fetches have been started.  log is what the action and its save observer
\* did, in order; status and diff are how the two fetches ended; lastSaved is
\* the document of the last save event the observer received; pane is the
\* editor showing the commit message document and closed the editors that
\* the git.commit callback closed.
NewCommit ==
    [pc |-> "fetch", observer |-> "none", inflight |-> 0, nCommit |-> 0,
     status |-> "pending", diff |-> "pending", lastSaved |-> "none", log |-> <<>>,
     pane |-> NoEditor, closed |-> {}]

Outcome(ok) == IF ok THEN "ok" ELSE "failed"

\* A join that waits for the status fetch only.
JoinFetchesStatusOnly(statusOk, diffOk) == statusOk

\* yield [p1, p2]: co joins the array as Promise.all does, which resolves
\* when both promises did and rejects when either does.
JoinFetches(statusOk, diffOk) == statusOk /\ diffOk

\* A step whose rejection is caught where it happens, and the generator
\* goes on.
AdvanceAfterCatch(c, ok, next, calls) ==
    IF ok THEN [c EXCEPT !.pc = next, !.log = @ \o calls]
    ELSE [c EXCEPT !.pc = next, !.log = Append(@, "caught") \o calls]

\* A step of the generator ended: it goes on to pc `next`, where it calls
\* what `calls` names; or the step's promise rejected, or the code after it
\* threw, and co rejects into the .catch that logs the error.
Advance(c, ok, next, calls) ==
    IF ok THEN [c EXCEPT !.pc = next, !.log = @ \o calls]
    ELSE [c EXCEPT !.pc = "failed", !.log = Append(@, "caught")]

\* A listener that does not compare doc.fileName.
SaveObserverAnyDocument(c, isCommitMsg) ==
    IF c.observer # "live" THEN c
    ELSE [c EXCEPT !.nCommit = @ + 1, !.inflight = @ + 1,
                   !.lastSaved = IF isCommitMsg THEN "commitMsg" ELSE "other",
                   !.log = Append(@, "commit")]

\* The onDidSaveTextDocument listener of one commitStaged, for a saved
\* document that is (isCommitMsg) or is not the commit message file: it
\* returns for any other document, and calls git.commit for this one.
SaveObserver(c, isCommitMsg) ==
    IF c.observer # "live" THEN c
    ELSE IF ~isCommitMsg THEN [c EXCEPT !.lastSaved = "other"]
    ELSE [c EXCEPT !.nCommit = @ + 1, !.inflight = @ + 1,
                   !.lastSaved = "commitMsg", !.log = Append(@, "commit")]

\* `this` in the git.commit callback.  The callback is an arrow function in
\* an arrow function in the generator `function *()` that commitStaged hands
\* to co, so it is the generator's `this`: co(gen) calls gen.apply(ctx) with
\* the `this` of the plain call co(...), which is not the controller.
thisIsController == FALSE

\* The last statement of the callback, this.contentProvider.refreshStatus():
\* a TypeError where this.contentProvider is undefined.
RefreshFromCallback == IF thisIsController THEN "refresh" ELSE "throw"

\* A callback that recovers as stageCurrent does: it logs and refreshes.
CommitCallbackRecovers(err) ==
    IF err THEN <<"failed", "refresh">>
    ELSE <<"committed", "close", "dispose", RefreshFromCallback>>

\* The git.commit callback, for a commit that failed (err) or succeeded:
\* if (err) throw err; closeActiveEditor; disposable.dispose();
\* this.contentProvider.refreshStatus().
CommitCallbackSteps(err) ==
    IF err THEN <<"failed", "throw">>
    ELSE <<"committed", "close", "dispose", RefreshFromCallback>>

\* commands.executeCommand('workbench.action.closeActiveEditor'): the host
\* closes the editor that is active when the command runs, if there is one.
closeActiveEditor(active) == IF active = NoEditor THEN {} ELSE {active}

\* -------------------------------------------------- the commit message

\* The characters a line of the commit message document holds: '#', a
\* character of the cut mark that is not '#', and any other character.
LineChars == {"#", ">", "m"}

\* The line terminators of JavaScript's regular expressions that a document
\* holds: `.` matches neither, and with the m flag `^` matches after either.
LineTerminators == {"LF", "CR"}

\* A TextDocument's end-of-line sequence: EndOfLine.LF or EndOfLine.CRLF.
EndOfLines == {<<"LF">>, <<"CR", "LF">>}

\* gitCutMarkRegex, /^# ------------------------ >8 ------------------------/m,
\* with its literal shortened to '#' and one further character.
gitCutMark == <<"#", ">">>

NoMsg == <<"none">>

\* doc.getText(): the lines joined by the document's end-of-line sequence.
RECURSIVE JoinLines(_, _)
JoinLines(lines, eol) ==
    IF Len(lines) = 0 THEN <<>>
    ELSE IF Len(lines) = 1 THEN lines[1]
    ELSE lines[1] \o eol \o JoinLines(Tail(lines), eol)

getText(doc) == JoinLines(doc.lines, doc.eol)

\* `^` under the m flag: at the start of the text or after a line terminator.
IsLineStart(t, i) == i = 1 \/ t[i - 1] \in LineTerminators

\* gitCutMarkRegex matches at position i of t.
CutMarkAt(t, i) ==
    /\ IsLineStart(t, i)
    /\ i + Len(gitCutMark) - 1 <= Len(t)
    /\ SubSeq(t, i, i + Len(gitCutMark) - 1) = gitCutMark

\* .split(gitCutMarkRegex)[0]: the text before the first match, or all of it.
BeforeCutMark(t) ==
    LET hits == {i \in 1..Len(t) : CutMarkAt(t, i)}
    IN IF hits = {} THEN t
       ELSE SubSeq(t, 1, (CHOOSE i \in hits : \A j \in hits : i <= j) - 1)

\* The end of a match of `.*` that starts at i: the first line terminator at
\* or after i, or the end of the text.
RECURSIVE EndOfDots(_, _)
EndOfDots(t, i) ==
    IF i > Len(t) \/ t[i] \in LineTerminators THEN i ELSE EndOfDots(t, i + 1)

\* .replace(gitCommentRegex, '') with gitCommentRegex = /^#.*\n?/mg, from
\* position i on: a match is '#' at a line start, the rest of the line, and
\* the "\n" that follows it if one does.
RECURSIVE StripCommentsFrom(_, _)
StripCommentsFrom(t, i) ==
    IF i > Len(t) THEN <<>>
    ELSE IF IsLineStart(t, i) /\ t[i] = "#"
    THEN LET j == EndOfDots(t, i + 1)
         IN IF j <= Len(t) /\ t[j] = "LF"
            THEN StripCommentsFrom(t, j + 1)
            ELSE IF j <= Len(t) THEN <<t[j]>> \o StripCommentsFrom(t, j + 1)
            ELSE <<>>
    ELSE <<t[i]>> \o StripCommentsFrom(t, i + 1)

\* const msg = doc.getText().split(gitCutMarkRegex)[0].replace(gitCommentRegex, '')
CommitMessage(text) == StripCommentsFrom(BeforeCutMark(text), 1)

\* --------------------------------------------- the commit message template
\* The text is a sequence of characters; a token stands for a longer literal
\* where the code treats the literal as a whole.

\* The characters of the output of git status: any character, '#', the
\* characters that String.prototype.replace reads in a replacement string
\* (dollar sign, backtick, apostrophe; the ampersand is not drawn), and "\n".
OutputChars == {"m", "#", "DOLLAR", "BACKTICK", "APOSTROPHE", "LF"}

StatusOutputs == UNION {[1..n -> OutputChars] : n \in 0..MaxOutputLen}

\* Outputs of `git diff --staged`: nothing staged, a line, and lines that hold
\* a comment and the cut mark.
DiffOutputs ==
    {<<>>, <<"m", "LF">>, <<"m", "LF", "#", "m", "LF", "#", ">", "LF">>}

\* gitCommitComment: an empty line, two comment lines, %%STATUS%% ("%"), the
\* cut mark line and two comment lines, each ended by "\n".
gitCommitComment ==
    <<"LF", "#", "m", "LF", "#", "m", "LF", "%", "LF",
      "#", ">", "LF", "#", "m", "LF", "#", "m", "LF">>

\* statusOutput.replace(/([\n])/g, '$1# '): "# " is put after every "\n".
RECURSIVE CommentAfterNewlines(_)
CommentAfterNewlines(t) ==
    IF t = <<>> THEN <<>>
    ELSE IF Head(t) = "LF" THEN <<"LF", "#", " ">> \o CommentAfterNewlines(Tail(t))
    ELSE <<Head(t)>> \o CommentAfterNewlines(Tail(t))

\* const commentedStatus = '# ' + statusOutput.replace(/([\n])/g, '$1# ')
commentedStatus(statusOutput) == <<"#", " ">> \o CommentAfterNewlines(statusOutput)

\* What String.prototype.replace inserts for the replacement string r, for a
\* match of a pattern without groups: a dollar sign before a dollar sign is
\* one dollar sign, before an ampersand the match, before a backtick the text
\* before the match and before an apostrophe the text after it; any other
\* character, and a dollar sign before any other character, is itself.
RECURSIVE ExpandReplacement(_, _, _, _)
ExpandReplacement(r, before, match, after) ==
    IF r = <<>> THEN <<>>
    ELSE IF /\ Head(r) = "DOLLAR" /\ Len(r) >= 2
            /\ r[2] \in {"DOLLAR", "AMPERSAND", "BACKTICK", "APOSTROPHE"}
    THEN (CASE r[2] = "DOLLAR" -> <<"DOLLAR">>
            [] r[2] = "AMPERSAND" -> match
            [] r[2] = "BACKTICK" -> before
            [] r[2] = "APOSTROPHE" -> after)
         \o ExpandReplacement(SubSeq(r, 3, Len(r)), before, match, after)
    ELSE <<Head(r)>> \o ExpandReplacement(Tail(r), before, match, after)

\* t.replace(/%%STATUS%%/, r): the first match is replaced by what r expands to.
ReplaceStatus(t, r) ==
    LET i == CHOOSE k \in 1..Len(t) : t[k] = "%"
        before == SubSeq(t, 1, i - 1)
        after == SubSeq(t, i + 1, Len(t))
    IN before \o ExpandReplacement(r, before, <<"%">>, after) \o after

\* const combined = gitCommitComment.replace(/%%STATUS%%/, commentedStatus) + diffOutput
combined(statusOutput, diffOutput) ==
    ReplaceStatus(gitCommitComment, commentedStatus(statusOutput)) \o diffOutput

\* The lines a TextDocument makes of inserted text: it breaks the text at
\* every "\r\n", "\n" and "\r".
RECURSIVE SplitLines(_, _)
SplitLines(t, line) ==
    IF t = <<>> THEN <<line>>
    ELSE IF Head(t) = "CR" /\ Len(t) >= 2 /\ t[2] = "LF"
    THEN <<line>> \o SplitLines(SubSeq(t, 3, Len(t)), <<>>)
    ELSE IF Head(t) \in LineTerminators THEN <<line>> \o SplitLines(Tail(t), <<>>)
    ELSE SplitLines(Tail(t), Append(line, Head(t)))

\* ------------------------------------------------------------------ state

\* constructor: the content provider is registered and the Disposable of that
\* is dropped; the open command is registered and pushed to subscriptions.
Init ==
    /\ activeEditor \in {NoEditor} \cup Panes
    /\ view = NoEditor
    /\ keypressDisposable = NoDisposable
    /\ subscriptions = <<NewDisposable("extension.openGitStatus")>>
    /\ disposed = FALSE
    /\ opens = [i \in 1..MaxOpens |-> IdleOpen]
    /\ rootPath \in BOOLEAN
    /\ providerRegistration = NewDisposable("gitshrewd")
    /\ changeListeners = <<>>
    /\ handles = <<>>
    /\ lastHandle = 0
    /\ lastRound = NoRound
    /\ tasks = <<>>
    /\ commits = <<>>
    /\ document = [lines |-> << <<>> >>, eol |-> <<"LF">>]
    /\ msg = NoMsg
    /\ content = NoContent
    /\ cursorLine = <<"  ", "a.txt">>
    /\ lastKey = NoKey

OtherThanFocus == <<envVars, providerVars, lastRound, actionVars>>

\* The user runs the command: openTextDocument is requested.
OpenGitStatus(i) ==
    /\ opens[i].pc = "idle"
    /\ Live(subscriptions, "extension.openGitStatus") # {}
    /\ opens' = [opens EXCEPT ![i].pc = "opening"]
    /\ UNCHANGED <<activeEditor, view, keypressDisposable, subscriptions, disposed>>
    /\ UNCHANGED OtherThanFocus
    /\ lastKey' = NoKey

\* openTextDocument resolved: the focus listener is installed and
\* showTextDocument is requested.
OpenDocResolved(i) ==
    /\ opens[i].pc = "opening"
    /\ Len(subscriptions) < MaxSubs
    /\ subscriptions' = eventuallyDispose(subscriptions, NewDisposable("watcher"))
    /\ opens' = [opens EXCEPT ![i].pc = "showing"]
    /\ UNCHANGED <<activeEditor, view, keypressDisposable, disposed>>
    /\ UNCHANGED OtherThanFocus
    /\ lastKey' = NoKey

\* openTextDocument rejected: logged.
OpenDocRejected(i) ==
    /\ opens[i].pc = "opening"
    /\ opens' = [opens EXCEPT ![i] = IdleOpen]
    /\ UNCHANGED <<activeEditor, view, keypressDisposable, subscriptions, disposed>>
    /\ UNCHANGED OtherThanFocus
    /\ lastKey' = NoKey

\* The host makes editor e the active one and fires
\* onDidChangeActiveTextEditor(e) when that is a change.
HostFocus(e) ==
    LET c == IF e = activeEditor THEN Ctl
             ELSE FireFocusEvent(Cardinality(LiveWatchers), e, view, Ctl)
    IN /\ Len(c.subs) <= MaxSubs
       /\ activeEditor' = e
       /\ keypressDisposable' = c.kd
       /\ subscriptions' = c.subs

\* The host reveals the status document in pane p.
HostShow(i, p) ==
    /\ opens[i].pc = "showing"
    /\ HostFocus(p)
    /\ opens' = [opens EXCEPT ![i] = [pc |-> "shown", pane |-> p]]
    /\ UNCHANGED <<view, disposed>>
    /\ UNCHANGED OtherThanFocus
    /\ lastKey' = NoKey

\* showTextDocument resolved with the editor.
ShowResolved(i) ==
    /\ opens[i].pc = "shown"
    /\ LET c == ShowCallback(opens[i].pane, Ctl)
       IN /\ Len(c.subs) <= MaxSubs
          /\ view' = c.view
          /\ keypressDisposable' = c.kd
          /\ subscriptions' = c.subs
    /\ opens' = [opens EXCEPT ![i] = IdleOpen]
    /\ UNCHANGED <<activeEditor, disposed>>
    /\ UNCHANGED OtherThanFocus
    /\ lastKey' = NoKey

\* showTextDocument rejected: no handler, nothing happens.
ShowRejected(i) ==
    /\ opens[i].pc = "showing"
    /\ opens' = [opens EXCEPT ![i] = IdleOpen]
    /\ UNCHANGED <<activeEditor, view, keypressDisposable, subscriptions, disposed>>
    /\ UNCHANGED OtherThanFocus
    /\ lastKey' = NoKey

\* Any other change of the active editor, to a pane or to none.
FocusChange(e) ==
    /\ e # activeEditor
    /\ HostFocus(e)
    /\ UNCHANGED <<view, disposed, opens>>
    /\ UNCHANGED OtherThanFocus
    /\ lastKey' = NoKey

\* dispose(): the host deactivates the extension.
DisposeAll(subs) == [i \in 1..Len(subs) |-> [subs[i] EXCEPT !.disposed = @ + 1]]

Dispose ==
    /\ ~disposed
    /\ disposed' = TRUE
    /\ subscriptions' = DisposeAll(subscriptions)
    /\ UNCHANGED <<activeEditor, view, keypressDisposable, opens>>
    /\ UNCHANGED OtherThanFocus
    /\ lastKey' = NoKey

\* A consumer subscribes to the provider's change events: the host does when
\* the provider is registered, and any caller of onDidChange may.
Subscribe ==
    /\ Len(handles) < MaxListeners
    /\ LET r == onDidChange(changeListeners, Len(handles) + 1)
       IN /\ changeListeners' = r.cl
          /\ handles' = Append(handles, r.idx)
    /\ lastHandle' = 0
    /\ lastRound' = NoRound
    /\ UNCHANGED <<focusVars, envVars, actionVars>>
    /\ lastKey' = NoKey

\* A consumer disposes the handle its h-th subscription returned.
DisposeHandle(h) ==
    /\ h \in 1..Len(handles)
    /\ changeListeners' = HandleDispose(changeListeners, handles[h])
    /\ lastHandle' = h
    /\ lastRound' = IF changeListeners' = changeListeners THEN lastRound ELSE NoRound
    /\ UNCHANGED <<focusVars, envVars, handles, actionVars>>
    /\ lastKey' = NoKey

\* refreshStatus() called through the provider's public interface.
RefreshStatus ==
    /\ lastRound' = refreshStatus(changeListeners)
    /\ UNCHANGED <<focusVars, envVars, providerVars, actionVars>>
    /\ lastKey' = NoKey

\* keyPress(what): the host runs the 'type' command for a typed character
\* while a registration is live, whichever editor widget has the focus.
KeyPress(ch) ==
    /\ LiveTypeRegs # {}
    /\ CASE keyPress(ch) = "refreshStatus" ->
              /\ lastRound' = refreshStatus(changeListeners)
              /\ UNCHANGED <<tasks, commits>>
         [] keyPress(ch) = "stageCurrent" ->
              /\ Len(tasks) < MaxTasks
              /\ tasks' = Append(tasks, NewTask("stage"))
              /\ UNCHANGED <<lastRound, commits>>
         [] keyPress(ch) = "unstageCurrent" ->
              /\ Len(tasks) < MaxTasks
              /\ tasks' = Append(tasks, NewTask("unstage"))
              /\ UNCHANGED <<lastRound, commits>>
         [] keyPress(ch) = "commitStaged" ->
              /\ Len(commits) < MaxCommits
              /\ Cardinality({c \in 1..Len(commits) :
                                 commits[c].pc \notin {"done", "failed"}}) < MaxPending
              /\ commits' = Append(commits, NewCommit)
              /\ UNCHANGED <<lastRound, tasks>>
         [] OTHER -> UNCHANGED <<lastRound, tasks, commits>>
    /\ lastKey' = ch
    /\ UNCHANGED <<focusVars, envVars, providerVars>>

\* isWorkspaceFile settled: a regular file or not (a failed stat is `false`).
ProbeDone(t, isfile) ==
    /\ t \in 1..Len(tasks)
    /\ tasks[t].pc = "probe"
    /\ tasks' = [tasks EXCEPT ![t] = AfterProbe(@, isfile)]
    /\ UNCHANGED <<focusVars, envVars, providerVars, lastRound, commits>>
    /\ lastKey' = NoKey

\* git add / git reset settled.
MutateDone(t, ok) ==
    /\ t \in 1..Len(tasks)
    /\ tasks[t].pc = "mutate"
    /\ tasks' = [tasks EXCEPT ![t] = AfterMutate(@, ok, changeListeners)]
    /\ lastRound' = refreshStatus(changeListeners)
    /\ UNCHANGED <<focusVars, envVars, providerVars, commits>>
    /\ lastKey' = NoKey

OtherThanCommits == <<focusVars, envVars, providerVars, lastRound, tasks>>

\* An awaited step of commitStaged settled: the step's promise resolved (ok)
\* or rejected, which co hands to the .catch that logs it.
\* yield [git status, git diff --staged]; then the commit message path is built.
CommitFetched(c, statusOk, diffOk) ==
    /\ c \in 1..Len(commits)
    /\ commits[c].pc = "fetch"
    /\ commits' = [commits EXCEPT ![c] =
            Advance([@ EXCEPT !.status = Outcome(statusOk), !.diff = Outcome(diffOk)],
                    JoinFetches(statusOk, diffOk) /\ ~toAbsoluteWorkspacePathThrows,
                    "probe", <<>>)]
    /\ UNCHANGED OtherThanCommits
    /\ lastKey' = NoKey

\* yield isWorkspaceFile(commitMsgFilename)
CommitProbed(c, exists) ==
    /\ c \in 1..Len(commits)
    /\ commits[c].pc = "probe"
    /\ commits' = [commits EXCEPT ![c] =
            IF exists THEN Advance(@, TRUE, "unlink", <<"unlink">>)
            ELSE Advance(@, TRUE, "open", <<"open">>)]
    /\ UNCHANGED OtherThanCommits
    /\ lastKey' = NoKey

\* yield unlinkP(commitMsgFilePath)
CommitUnlinked(c, ok) ==
    /\ c \in 1..Len(commits)
    /\ commits[c].pc = "unlink"
    /\ commits' = [commits EXCEPT ![c] = Advance(@, ok, "open", <<"open">>)]
    /\ UNCHANGED OtherThanCommits
    /\ lastKey' = NoKey

\* yield workspace.openTextDocument(untitled:...)
CommitDocOpened(c, ok) ==
    /\ c \in 1..Len(commits)
    /\ commits[c].pc = "open"
    /\ commits' = [commits EXCEPT ![c] = Advance(@, ok, "show", <<"show">>)]
    /\ UNCHANGED OtherThanCommits
    /\ lastKey' = NoKey

\* The host reveals the commit message document in pane p, an editor other
\* than the status view's.
CommitHostShow(c, p) ==
    /\ c \in 1..Len(commits)
    /\ commits[c].pc = "show"
    /\ p # view
    /\ HostFocus(p)
    /\ commits' = [commits EXCEPT ![c].pc = "shown", ![c].pane = p]
    /\ UNCHANGED <<view, disposed, opens, envVars, providerVars, lastRound, tasks>>
    /\ lastKey' = NoKey

\* yield window.showTextDocument(doc)
CommitShown(c, ok) ==
    /\ c \in 1..Len(commits)
    /\ commits[c].pc \in {"show", "shown"}
    /\ commits[c].pc = "show" => ~ok
    /\ commits' = [commits EXCEPT ![c] = Advance(@, ok, "edit", <<"edit">>)]
    /\ UNCHANGED OtherThanCommits
    /\ lastKey' = NoKey

\* yield editor.edit(...); then the cursor is set and the save observer is
\* registered.
CommitEdited(c, ok) ==
    /\ c \in 1..Len(commits)
    /\ commits[c].pc = "edit"
    /\ commits' = [commits EXCEPT ![c] =
            Advance([@ EXCEPT !.observer = IF ok THEN "live" ELSE @],
                    ok, "done", <<"select", "observe">>)]
    /\ UNCHANGED OtherThanCommits
    /\ lastKey' = NoKey

\* The host fires onDidSaveTextDocument(doc) at every live save observer.
SaveDocument(isCommitMsg) ==
    /\ \E c \in 1..Len(commits) : commits[c].observer = "live"
    /\ isCommitMsg => \A c \in 1..Len(commits) : commits[c].nCommit < MaxSaves
    /\ commits' = [c \in 1..Len(commits) |-> SaveObserver(commits[c], isCommitMsg)]
    /\ UNCHANGED OtherThanCommits
    /\ lastKey' = NoKey

\* The git.commit callback runs: it throws err, or asks the host to close
\* the active editor, disposes the save observer and goes on to its refresh
\* statement.  The host reports the focus change that follows the close as
\* any other (FocusChange).
CommitCallback(c, err) ==
    /\ c \in 1..Len(commits)
    /\ commits[c].inflight > 0
    /\ LET steps == CommitCallbackSteps(err)
           did(x) == \E k \in 1..Len(steps) : steps[k] = x
       IN /\ commits' = [commits EXCEPT
                ![c].inflight = @ - 1,
                ![c].observer = IF did("dispose") THEN "disposed" ELSE @,
                ![c].closed = IF did("close") THEN @ \cup closeActiveEditor(activeEditor)
                              ELSE @,
                ![c].log = @ \o steps]
          /\ lastRound' = IF did("refresh") THEN refreshStatus(changeListeners)
                          ELSE lastRound
    /\ UNCHANGED <<focusVars, envVars, providerVars, tasks>>
    /\ lastKey' = NoKey

OtherThanDocument ==
    <<focusVars, rootPath, providerRegistration, content, cursorLine, providerVars, lastRound, actionVars>>

OtherThanCursor ==
    <<focusVars, rootPath, providerRegistration, document, msg, content, providerVars, lastRound, actionVars>>

\* The cursor of the status view comes to stand on a line with this text:
\* the user moved it, or the view's content changed under it.
MoveCursor(line) ==
    /\ view # NoEditor
    /\ line # cursorLine
    /\ cursorLine' = line
    /\ UNCHANGED OtherThanCursor
    /\ lastKey' = NoKey

\* The user types a character at the end of the commit message document.
TypeChar(ch) ==
    /\ Len(document.lines[Len(document.lines)]) < MaxLineLen
    /\ document' = [document EXCEPT !.lines[Len(document.lines)] = Append(@, ch)]
    /\ msg' = NoMsg
    /\ UNCHANGED OtherThanDocument
    /\ lastKey' = NoKey

\* The user starts a new line at the end of the document.
TypeEnter ==
    /\ Len(document.lines) < MaxLines
    /\ document' = [document EXCEPT !.lines = Append(@, <<>>)]
    /\ msg' = NoMsg
    /\ UNCHANGED OtherThanDocument
    /\ lastKey' = NoKey

\* The document's end-of-line sequence is eol: the platform's default for an
\* untitled document, or the user's choice.
ChangeEndOfLine(eol) ==
    /\ document.eol # eol
    /\ document' = [document EXCEPT !.eol = eol]
    /\ msg' = NoMsg
    /\ UNCHANGED OtherThanDocument
    /\ lastKey' = NoKey

\* The commit message document is saved: the save observer computes msg from
\* its text and passes it to git.commit.
SaveCommitMessage ==
    /\ msg' = CommitMessage(getText(document))
    /\ UNCHANGED <<document, OtherThanDocument>>
    /\ lastKey' = NoKey

\* commitStaged fills the new, empty commit message document: editor.edit
\* inserts `combined` at its start.  The document keeps its end-of-line
\* sequence and breaks the text into its lines.
InsertTemplate(statusOutput, diffOutput) ==
    /\ document.lines = << <<>> >>
    /\ document' = [lines |-> SplitLines(combined(statusOutput, diffOutput), <<>>),
                    eol |-> document.eol]
    /\ msg' = NoMsg
    /\ UNCHANGED OtherThanDocument
    /\ lastKey' = NoKey

OtherThanContent ==
    <<focusVars, rootPath, providerRegistration, document, msg, cursorLine, providerVars, lastRound, actionVars>>

\* The host asks the provider for the content of a URI with this path.
ProvideTextDocumentContent(path) ==
    /\ content' = provideTextDocumentContent(path, rootPath)
    /\ UNCHANGED OtherThanContent
    /\ lastKey' = NoKey

\* git.status answered: the returned promise settles.
GitStatusAnswered(result) ==
    /\ content.state = "pending"
    /\ LET c == AllThenConcat(<<provideStatusContent(result), provideShortcutHelp>>)
       IN content' = [content EXCEPT !.state = c.state, !.text = c.text, !.result = result]
    /\ UNCHANGED OtherThanContent
    /\ lastKey' = NoKey

NextFocus ==
    \/ \E i \in 1..MaxOpens : OpenGitStatus(i)
    \/ \E i \in 1..MaxOpens : OpenDocResolved(i)
    \/ \E i \in 1..MaxOpens : OpenDocRejected(i)
    \/ \E i \in 1..MaxOpens, p \in Panes : HostShow(i, p)
    \/ \E i \in 1..MaxOpens : ShowResolved(i)
    \/ \E i \in 1..MaxOpens : ShowRejected(i)
    \/ \E e \in {NoEditor} \cup Panes : FocusChange(e)
    \/ Dispose

\* The focus state machine with one openGitStatus in flight at a time and no
\* deactivation.
NextView ==
    \/ OpenGitStatus(1)
    \/ OpenDocResolved(1)
    \/ OpenDocRejected(1)
    \/ \E p \in Panes : HostShow(1, p)
    \/ ShowResolved(1)
    \/ ShowRejected(1)
    \/ \E e \in {NoEditor} \cup Panes : FocusChange(e)

NextProvider ==
    \/ Subscribe
    \/ \E h \in 1..MaxListeners : DisposeHandle(h)
    \/ RefreshStatus

NextKeys ==
    \E ch \in Keys : KeyPress(ch)

\* The keys that refresh, stage and unstage.
NextStageKeys ==
    \E ch \in {"r", "s", "u"} : KeyPress(ch)

NextStage ==
    \/ \E t \in 1..MaxTasks, isfile \in BOOLEAN : ProbeDone(t, isfile)
    \/ \E t \in 1..MaxTasks, ok \in BOOLEAN : MutateDone(t, ok)

\* The first commitStaged of a run, with every outcome of each of its steps.
NextCommit ==
    \/ \E statusOk \in BOOLEAN, diffOk \in BOOLEAN : CommitFetched(1, statusOk, diffOk)
    \/ \E exists \in BOOLEAN : CommitProbed(1, exists)
    \/ \E ok \in BOOLEAN : CommitUnlinked(1, ok)
    \/ \E ok \in BOOLEAN : CommitDocOpened(1, ok)
    \/ \E p \in Panes : CommitHostShow(1, p)
    \/ \E ok \in BOOLEAN : CommitShown(1, ok)
    \/ \E ok \in BOOLEAN : CommitEdited(1, ok)
    \/ \E isCommitMsg \in BOOLEAN : SaveDocument(isCommitMsg)
    \/ \E err \in BOOLEAN : CommitCallback(1, err)

\* Every commitStaged of a run, where no commit message file exists and the
\* fetches and the host's steps succeed.
NextRecommit ==
    \/ \E c \in 1..MaxCommits : CommitFetched(c, TRUE, TRUE)
    \/ \E c \in 1..MaxCommits : CommitProbed(c, FALSE)
    \/ \E c \in 1..MaxCommits : CommitDocOpened(c, TRUE)
    \/ \E c \in 1..MaxCommits, p \in Panes : CommitHostShow(c, p)
    \/ \E c \in 1..MaxCommits : CommitShown(c, TRUE)
    \/ \E c \in 1..MaxCommits : CommitEdited(c, TRUE)
    \/ SaveDocument(TRUE)
    \/ \E c \in 1..MaxCommits, err \in BOOLEAN : CommitCallback(c, err)

NextMessage ==
    \/ \E ch \in LineChars : TypeChar(ch)
    \/ TypeEnter
    \/ \E eol \in EndOfLines : ChangeEndOfLine(eol)
    \/ SaveCommitMessage

NextTemplate ==
    \/ \E statusOutput \in StatusOutputs, diffOutput \in DiffOutputs :
          InsertTemplate(statusOutput, diffOutput)
    \/ \E eol \in EndOfLines : ChangeEndOfLine(eol)
    \/ SaveCommitMessage

NextCursor ==
    \E line \in ViewLines : MoveCursor(line)

NextContent ==
    \/ \E path \in UriPaths : ProvideTextDocumentContent(path)
    \/ \E result \in StatusResults : GitStatusAnswered(result)

Next ==
    \/ NextFocus \/ NextProvider \/ NextKeys \/ NextStage \/ NextCommit
    \/ NextRecommit \/ NextMessage \/ NextContent \/ NextCursor \/ NextTemplate

\* The whole extension.
Spec == Init /\ [][Next]_vars

\* The focus state machine alone: no other action writes its variables.
SpecFocus == Init /\ [][NextFocus]_vars

\* The content provider's listener list alone.
SpecProvider == Init /\ [][NextProvider]_vars

\* The status view with its 'r', 's' and 'u' keys and the stage / unstage
\* actions, over any listener list.
SpecStage == Init /\ [][NextView \/ NextProvider \/ NextStageKeys \/ NextStage]_vars

\* The status view with its 'c' key and the first commitStaged.
SpecCommit == Init /\ [][NextView \/ KeyPress("c") \/ NextCommit]_vars

\* The commit message document and the message the save observer extracts.
SpecMessage == Init /\ [][NextMessage]_vars

\* The status view with its keys, the cursor in it, and the stage / unstage
\* actions, with no listener subscribed.
SpecKeys == Init /\ [][NextView \/ NextKeys \/ NextStage \/ NextCursor]_vars

\* The status view with its 'c' key and every commitStaged it starts.
SpecRecommit == Init /\ [][NextView \/ KeyPress("c") \/ NextRecommit]_vars

\* The status view, the first commitStaged and the controller's dispose().
SpecDeactivate == Init /\ [][NextView \/ Dispose \/ KeyPress("c") \/ NextCommit]_vars

\* The commit message document as commitStaged fills it, saved as it is.
SpecTemplate == Init /\ [][NextTemplate]_vars

\* The content provider: its listeners, refresh rounds and content requests.
SpecRefresh == Init /\ [][NextProvider \/ NextContent]_vars

\* The content provider's answers to content requests.
SpecContent == Init /\ [][NextContent]_vars

\* ----------------------------------------------------------------- claims

TypeRegs(subs) == {i \in 1..Len(subs) : subs[i].kind = "type"}

\* C1: while the controller is not disposed, a 'type' registration is live
\* if and only if the tracked pane is the host's active editor.
C1_KeyCaptureIffFocused ==
    ~disposed => ((LiveTypeRegs # {}) <=> Focused)

\* C2: a focus event that leaves the tracked pane ends with no live
\* registration and one that returns to it ends with exactly one; a step
\* installs a registration only when it enters Open-Focused, and releases one
\* (other than by dispose()) only when it leaves Open-Focused with the view
\* still tracked.
C2_InstallOnEntryReleaseOnExit ==
    [][/\ (/\ ~disposed /\ view # NoEditor /\ view' = view
           /\ activeEditor' # activeEditor /\ LiveWatchers # {})
          => Cardinality(LiveTypeRegs') = (IF activeEditor' = view THEN 1 ELSE 0)
       /\ (TypeRegs(subscriptions') # TypeRegs(subscriptions))
          => (~Focused /\ Focused')
       /\ (~disposed' /\ LiveTypeRegs' # LiveTypeRegs
                      /\ TypeRegs(subscriptions') = TypeRegs(subscriptions))
          => (Focused /\ ~Focused' /\ view' # NoEditor)
      ]_vars

\* C3: whenever a pane other than the tracked status pane is the active
\* editor, no 'type' registration is live.
C3_NoCaptureWhileOtherPaneFocused ==
    (~disposed /\ activeEditor # NoEditor /\ activeEditor # view) => LiveTypeRegs = {}

\* C4: at most one 'type' registration is live in every reachable state,
\* however many openGitStatus invocations, show completions and focus events
\* interleave.
C4_AtMostOneRegistration ==
    Cardinality(LiveTypeRegs) <= 1

\* C4 witness: two focus listeners are installed, a second registration has
\* been made over the run, and exactly one is live.
C4_Witness ==
    /\ Cardinality(LiveWatchers) >= 2
    /\ Cardinality(TypeRegs(subscriptions)) >= 2
    /\ Cardinality(LiveTypeRegs) = 1

Occurrences(seq, x) == Cardinality({j \in 1..Len(seq) : seq[j] = x})

\* C5: a refreshStatus round invokes every listener that is subscribed
\* exactly once and no listener whose handle was disposed.
C5_RefreshInvokesEachActiveOnce ==
    lastRound.ran =>
        \A n \in 1..Len(handles) :
            Occurrences(lastRound.invoked, n) =
                (IF Occurrences(changeListeners, n) > 0 THEN 1 ELSE 0)

\* C6: disposing a handle nulls the slot of that handle's listener and
\* nothing else: every other slot keeps its content, the list keeps its
\* length, the n-th listener is only ever in slot n, and disposing the handle
\* again changes nothing.
C6_DisposeNullsOnlyItsSlot ==
    [][/\ (lastHandle' # 0 /\ <<changeListeners, lastHandle>>' # <<changeListeners, lastHandle>>)
          => changeListeners' =
                [j \in 1..Len(changeListeners) |->
                    IF changeListeners[j] = lastHandle' THEN Null ELSE changeListeners[j]]
       /\ Len(changeListeners') = Len(handles')
       /\ \A j \in 1..Len(changeListeners') : changeListeners'[j] \in {Null, j}
      ]_vars

\* C6 witness: the middle one of three listeners was disposed; its
\* neighbours are active in their slots.
C6_Witness ==
    /\ lastHandle = 2
    /\ changeListeners = <<1, Null, 3>>

\* C7: every finished stageCurrent / unstageCurrent action has requested a
\* status refresh.
C7_StageEndsInRefresh ==
    \A t \in 1..Len(tasks) : tasks[t].pc = "done" => tasks[t].nRefresh >= 1

\* C8: every stageCurrent / unstageCurrent action invokes git add / git reset
\* exactly once.
C8_MutationExactlyOnce ==
    \A t \in 1..Len(tasks) :
        /\ tasks[t].nMutate <= 1
        /\ tasks[t].pc = "done" => tasks[t].nMutate = 1

\* C9: no stageCurrent / unstageCurrent action throws or returns a rejected
\* promise.
C9_StageNeverThrows ==
    \A t \in 1..Len(tasks) : tasks[t].outcome \notin {"threw", "rejected"}

\* C10: the save observer of one commitStaged invokes git.commit at most
\* once, however many times the commit message document is saved.
C10_CommitAtMostOnce ==
    \A c \in 1..Len(commits) : commits[c].nCommit <= 1

StartsWith(line, prefix) ==
    Len(line) >= Len(prefix) /\ SubSeq(line, 1, Len(prefix)) = prefix

\* The lines of doc from the k-th up to the first one that starts with the
\* cut mark, without those that start with '#', each with the terminator
\* that follows it in the text (none after the last line of the document).
RECURSIVE ExpectedFrom(_, _)
ExpectedFrom(doc, k) ==
    IF k > Len(doc.lines) \/ StartsWith(doc.lines[k], gitCutMark) THEN <<>>
    ELSE LET term == IF k < Len(doc.lines) THEN doc.eol ELSE <<>>
             rest == ExpectedFrom(doc, k + 1)
         IN IF StartsWith(doc.lines[k], <<"#">>) THEN rest
            ELSE doc.lines[k] \o term \o rest

\* C11: the message passed to git.commit on a save is the document's text
\* before the first cut-mark line, without the lines that start with '#'.
C11_MessageIsTextBeforeCutMarkWithoutComments ==
    msg # NoMsg => msg = ExpectedFrom(document, 1)

\* C12: a save of a document other than the commit message file, delivered
\* to a live save observer, calls no git.commit, closes no editor and requests
\* no refresh: nothing but the record of the event changes.
C12_OtherSavesDoNothing ==
    [][\A c \in 1..Len(commits) :
          (/\ Len(commits') = Len(commits)
           /\ commits[c].observer = "live"
           /\ commits[c].lastSaved # "other"
           /\ commits'[c].lastSaved = "other")
          => /\ commits'[c] = [commits[c] EXCEPT !.lastSaved = "other"]
             /\ lastRound' = lastRound
             /\ activeEditor' = activeEditor
      ]_vars

\* C12 witness: a live observer has received the save of another document
\* after it had called git.commit for a save of the commit message.
C12_Witness ==
    \E c \in 1..Len(commits) :
        /\ commits[c].observer = "live"
        /\ commits[c].lastSaved = "other"
        /\ commits[c].nCommit = 1

\* C13: every git.commit that succeeded is followed at once by close,
\* dispose, refresh, once each and in that order, and none of the three
\* happens anywhere else than after a successful commit.
C13_CloseDisposeRefreshAfterSuccess ==
    \A c \in 1..Len(commits) :
        LET log == commits[c].log
        IN /\ \A i \in 1..Len(log) :
                /\ log[i] = "committed" =>
                      /\ i + 3 <= Len(log)
                      /\ SubSeq(log, i + 1, i + 3) = <<"close", "dispose", "refresh">>
                /\ log[i] = "close" => i > 1 /\ log[i - 1] = "committed"
                /\ log[i] = "dispose" => i > 1 /\ log[i - 1] = "close"
                /\ log[i] = "refresh" => i > 1 /\ log[i - 1] = "dispose"
           /\ commits[c].observer = "disposed" <=> (\E i \in 1..Len(log) : log[i] = "dispose")

\* C14: a git.commit that failed is followed by the throw of its error and
\* by no close, dispose or refresh of that callback; the observer stays as
\* it was.
C14_CommitFailureIsThrown ==
    \A c \in 1..Len(commits) :
        LET log == commits[c].log
        IN \A i \in 1..Len(log) :
              log[i] = "failed" =>
                  /\ i < Len(log)
                  /\ log[i + 1] = "throw"
                  /\ i + 2 <= Len(log) => log[i + 2] \in {"commit", "committed", "failed"}
                  /\ \A j \in 1..Len(log) : log[j] = "refresh" => j < i

\* C14 witness: the only commit of a save failed; nothing was closed or
\* refreshed and the observer is still live.
C14_Witness ==
    \E c \in 1..Len(commits) :
        /\ commits[c].observer = "live"
        /\ commits[c].inflight = 0
        /\ commits[c].nCommit = 1
        /\ commits[c].log[Len(commits[c].log)] = "throw"

\* C15: when the status fetch or the staged-diff fetch failed, the action
\* has gone to its catch handler and has done nothing else: nothing unlinked,
\* no document opened or shown, no save observer registered.
C15_FetchFailureIsAtomic ==
    \A c \in 1..Len(commits) :
        (commits[c].status = "failed" \/ commits[c].diff = "failed")
        => /\ commits[c].pc = "failed"
           /\ commits[c].log = <<"caught">>
           /\ commits[c].observer = "none"

\* C15 witness: the status fetch succeeded and the staged-diff fetch failed.
C15_Witness ==
    \E c \in 1..Len(commits) :
        /\ commits[c].status = "ok"
        /\ commits[c].diff = "failed"
        /\ commits[c].pc = "failed"

\* C16: a content request for any path other than 'status' is rejected as
\* an unrecognized URI, with or without a workspace root, and queries git
\* zero times.
C16_OtherPathsRejected ==
    content.uri \notin {"none", "status"}
    => /\ content.state = "rejected"
       /\ content.text = <<"unrecognized URI ", content.uri>>
       /\ content.gitCalls = 0

\* C16 witness: such a request was made with no workspace root bound.
C16_Witness ==
    /\ ~rootPath
    /\ content.uri = "/status"
    /\ content.state = "rejected"

\* C17: with no workspace root, a request for 'status' resolves to
\* 'No folder open' and queries git zero times.
C17_NoFolderOpen ==
    (~rootPath /\ content.uri = "status")
    => /\ content.state = "resolved"
       /\ content.text = <<"No folder open">>
       /\ content.gitCalls = 0

\* C17 witness: the request was made and answered without a root.
C17_Witness ==
    /\ ~rootPath
    /\ content.uri = "status"
    /\ content.text = <<"No folder open">>

\* The file names a rendered text lists from position k on, one indented
\* line each.
RECURSIVE ReadIndented(_, _)
ReadIndented(text, k) ==
    IF k + 2 <= Len(text) /\ text[k] = "\n" /\ text[k + 1] = "  "
    THEN <<text[k + 2]>> \o ReadIndented(text, k + 3)
    ELSE <<>>

\* The file names listed under a label of the rendered text.
Listing(text, label) ==
    LET at == {i \in 1..Len(text) : text[i] = label}
    IN IF at = {} THEN <<>> ELSE ReadIndented(text, (CHOOSE i \in at : TRUE) + 1)

Rendered == content.state = "resolved" /\ content.result.ok

\* C18: a file whose index and working_dir are both 'M' is listed exactly
\* once under STAGED: and exactly once under UNSTAGED:.
C18_PartiallyStagedInBothSections ==
    Rendered =>
        \A i \in 1..Len(content.result.files) :
            LET file == content.result.files[i]
            IN (file.index = "M" /\ file.working_dir = "M")
               => /\ Occurrences(Listing(content.text, "STAGED:"), file.path) = 1
                  /\ Occurrences(Listing(content.text, "UNSTAGED:"), file.path) = 1

\* C18 witness: the response lists a partially staged file after a file
\* that is only staged.
C18_Witness ==
    /\ Rendered
    /\ Len(content.result.files) = 2
    /\ content.result.files[1].index = "M" /\ content.result.files[1].working_dir = " "
    /\ content.result.files[2].index = "M" /\ content.result.files[2].working_dir = "M"

\* The paths of the files whose marker is 'M', in listing order.
ModifiedIn(files, column) ==
    LET hit(f) == IF column = "index" THEN f.index = "M" ELSE f.working_dir = "M"
        kept == SelectSeq(files, hit)
    IN [i \in 1..Len(kept) |-> kept[i].path]

\* A label is printed once, its files follow one per line and a blank line
\* ends the block; or the list is empty and the label is not printed.
BlockLists(text, label, list) ==
    /\ Listing(text, label) = list
    /\ Occurrences(text, label) = (IF Len(list) = 0 THEN 0 ELSE 1)
    /\ \A i \in 1..Len(text) :
          text[i] = label =>
              LET end == i + 3 * Len(list) + 1
              IN end + 1 <= Len(text) /\ text[end] = "\n" /\ text[end + 1] = "\n"

\* C19: the STAGED: block lists exactly the files with index 'M' and the
\* UNSTAGED: block exactly those with working_dir 'M', in listing order, one
\* per line; a block whose list is empty is left out, label included.
C19_BlocksListModifiedFilesInOrder ==
    Rendered =>
        /\ BlockLists(content.text, "STAGED:", ModifiedIn(content.result.files, "index"))
        /\ BlockLists(content.text, "UNSTAGED:", ModifiedIn(content.result.files, "working_dir"))

\* C19 witness: two staged files, listed in an order that is not the
\* alphabetical one, and no unstaged file.
C19_Witness ==
    /\ Rendered
    /\ Listing(content.text, "STAGED:") = <<"b.txt", "a.txt">>
    /\ Occurrences(content.text, "UNSTAGED:") = 0

\* C20: when the git status query fails, the request for 'status' resolves
\* to the error string followed by the shortcut help.
C20_StatusFailureResolvesInline ==
    (content.gitCalls = 1 /\ content.state # "pending" /\ ~content.result.ok)
    => /\ content.state = "resolved"
       /\ content.text = <<"error getting git status: ", "err", "\n">>
                          \o provideShortcutHelp.text \o <<"\n">>

\* C20 witness: a status query failed and the request is settled.
C20_Witness ==
    /\ content.gitCalls = 1
    /\ content.state \in {"resolved", "rejected"}
    /\ ~content.result.ok

\* C21: a keyPress call for 'r' runs one refreshStatus round and nothing
\* else, for 's' starts one stageCurrent and nothing else, for 'u' one
\* unstageCurrent, for 'c' one commitStaged.
C21_KeyPressDispatchesByCharacter ==
    [][LET started(seq, seq2) == Len(seq2) = Len(seq) + 1 /\ SubSeq(seq2, 1, Len(seq)) = seq
       IN /\ lastKey' = "r" =>
                /\ lastRound'.ran /\ lastRound' = refreshStatus(changeListeners)
                /\ UNCHANGED <<tasks, commits>>
          /\ lastKey' = "s" =>
                /\ started(tasks, tasks') /\ tasks'[Len(tasks')].kind = "stage"
                /\ UNCHANGED <<lastRound, commits>>
          /\ lastKey' = "u" =>
                /\ started(tasks, tasks') /\ tasks'[Len(tasks')].kind = "unstage"
                /\ UNCHANGED <<lastRound, commits>>
          /\ lastKey' = "c" =>
                /\ started(commits, commits') /\ commits'[Len(commits')] = NewCommit
                /\ UNCHANGED <<lastRound, tasks>>
      ]_vars

\* C21 witness: 'u' was typed last and started an unstageCurrent, after 'r'
\* had run a round and 'c' had started a commitStaged.
C21_Witness ==
    /\ lastKey = "u"
    /\ Len(tasks) = 1 /\ tasks[1].kind = "unstage"
    /\ Len(commits) = 1
    /\ lastRound.ran

\* C22: a keyPress call for any other character changes nothing: no action
\* starts, no round runs, the controller's fields and the listener slots
\* stay as they are.
C22_OtherKeysDoNothing ==
    [][lastKey' \notin {NoKey, "r", "s", "u", "c"}
       => UNCHANGED <<focusVars, envVars, providerVars, lastRound, actionVars>>]_vars

\* C22 witness: 'x' was typed with the status view focused.
C22_Witness ==
    /\ lastKey = "x"
    /\ Focused
    /\ LiveTypeRegs # {}

\* C23: a refreshStatus round calls the listeners and nothing else: it makes
\* no git query and leaves the provider's content, computed or pending, as
\* it is.
C23_RefreshOnlyNotifies ==
    [][(lastRound'.ran /\ lastRound' # lastRound)
       => /\ lastRound'.gitCalls = 0
          /\ content' = content
          /\ UNCHANGED providerVars]_vars

\* C23 witness: a round invoked two listeners while the content of an
\* earlier request is still what that request computed.
C23_Witness ==
    /\ lastRound.ran
    /\ Len(lastRound.invoked) = 2
    /\ content.state = "resolved"
    /\ content.gitCalls = 1

\* C24: once dispose() has run, no 'type' registration is live and no pane
\* is tracked.
C24_DisposeTearsDownSession ==
    disposed => (LiveTypeRegs = {} /\ view = NoEditor)

\* The listeners still subscribed, in slot order.
ActiveListeners == SelectSeq(changeListeners, LAMBDA l : l # Null)

\* C25: a notification round over a list with disposed handles completes
\* without error and invokes every listener still subscribed, in slot order.
C25_RoundIsStableUnderRemoval ==
    lastRound.ran => (~lastRound.threw /\ lastRound.invoked = ActiveListeners)

\* C27: a finished stageCurrent / unstageCurrent action has requested
\* exactly one refresh.
C27_ExactlyOneRefreshPerAction ==
    \A t \in 1..Len(tasks) : tasks[t].pc = "done" => tasks[t].nRefresh = 1

\* C29: while no pane is tracked, no 'type' registration is live.
C29_NoCaptureWhileUntracked ==
    (~disposed /\ view = NoEditor) => LiveTypeRegs = {}

FlowSteps == <<"unlink", "open", "show", "edit", "select", "observe">>

IsPrefix(p, q) == Len(p) <= Len(q) /\ SubSeq(q, 1, Len(p)) = p

\* What commitStaged itself did, without what its save observer did later.
FlowOf(log) ==
    SelectSeq(log, LAMBDA x : x \in {FlowSteps[k] : k \in 1..Len(FlowSteps)} \cup {"caught"})

\* C26: commitStaged does its steps in order: after both fetches, unlink if
\* the file exists, open, show, edit, place the cursor, register the save
\* observer; after a step that failed it does nothing but log the error.
C26_CommitStepsInOrder ==
    \A c \in 1..Len(commits) :
        LET flow == FlowOf(commits[c].log)
            done == IF commits[c].pc = "failed" THEN SubSeq(flow, 1, Len(flow) - 1) ELSE flow
        IN /\ IsPrefix(done, FlowSteps) \/ IsPrefix(done, Tail(FlowSteps))
           /\ flow # <<>> /\ flow # <<"caught">>
                => commits[c].status = "ok" /\ commits[c].diff = "ok"
           /\ commits[c].pc = "failed" => flow[Len(flow)] = "caught"
           /\ commits[c].observer # "none" <=> done \in {FlowSteps, Tail(FlowSteps)}

\* C26 witness: every step ran, the unlink of an existing file included.
C26_Witness ==
    \E c \in 1..Len(commits) :
        /\ commits[c].log = FlowSteps
        /\ commits[c].observer = "live"

LiveObservers == {c \in 1..Len(commits) : commits[c].observer = "live"}

\* C28: at most one save observer is live, however many commitStaged
\* actions have run.
C28_AtMostOneLiveObserver ==
    Cardinality(LiveObservers) <= 1


\* C31: no 'type' registration made by registerCommand has its dispose()
\* called more than once, by the focus listener and by dispose() together.
C31_RegistrationReleasedAtMostOnce ==
    \A i \in TypeRegs(subscriptions) : subscriptions[i].disposed <= 1

\* What the controller has registered with the host and the host still holds.
LiveRegistrations ==
    [command  |-> Live(subscriptions, "extension.openGitStatus"),
     watcher  |-> LiveWatchers,
     type     |-> LiveTypeRegs,
     observer |-> LiveObservers,
     provider |-> IF providerRegistration.disposed = 0 THEN {1} ELSE {}]

\* C32: once dispose() has run, the open command, the focus listeners, the
\* 'type' registrations, the save observers and the content provider's
\* registration are all released.
C32_NothingLiveAfterDispose ==
    disposed => \A k \in DOMAIN LiveRegistrations : LiveRegistrations[k] = {}

\* C33: the only editor the commit flow closes is the one showing the commit
\* message document, wherever the focus is when the git.commit callback runs.
C33_ClosesCommitEditorOnly ==
    \A c \in 1..Len(commits) : commits[c].closed \subseteq {commits[c].pane}

\* A line of the text holds a character other than a space.
HasNonBlankLine(t) == \E i \in 1..Len(t) : t[i] \notin LineTerminators \cup {" "}

\* C34: the message extracted from a saved commit template that was not
\* edited has no non-blank line, whatever git status and git diff printed.
C34_UneditedTemplateGivesBlankMessage ==
    msg # NoMsg => ~HasNonBlankLine(msg)

====
